---------------------------- MODULE Spec2Model ----------------------------
(***************************************************************************)
(* Token-driven state machines of lizard_languages: the Go grammar         *)
(* (go.py, GoStates), the Go-family base grammar (golike.py, GoLikeStates) *)
(* and the Java annotation extension (java.py, JavaStates).                *)
(*                                                                         *)
(* The engine (CodeStateMachine of code_reader.py), the Context and the    *)
(* C-family base grammar (CLikeStates of clike.py) are not among the       *)
(* source files; they are modelled from sections 4.1, 4.4 and 6 of the     *)
(* specification.                                                          *)
(*                                                                         *)
(* A token is a string.  A machine instance is a record; the machine stack *)
(* is a sequence whose last element is the machine that receives tokens.   *)
(* The function stack is a sequence whose first element is the global      *)
(* sentinel and whose last element is the current function.                *)
(***************************************************************************)
EXTENDS Integers, Sequences, FiniteSets, TLC

VARIABLES
    grammar,    \* "go" (GoStates), "golike" (GoLikeStates) or "java" (JavaStates)
    script,     \* tokens the lexer is still going to deliver, in order
    alpha,      \* tokens the lexer may deliver once the script is exhausted
    budget,     \* how many more tokens the lexer delivers after the script
    input,      \* tokens delivered so far
    stack,      \* machine stack, base machine first
    funcs,      \* function stack of the Context, global sentinel first
    events,     \* events received by the Context, in order
    gen,        \* the declarations the lexer has begun, and the events they call for
    trail       \* the state the top machine rested in when each token arrived

vars == <<grammar, script, alpha, budget, input, stack, funcs, events, gen, trail>>

-----------------------------------------------------------------------------
(* Bounds *)

\* number of tokens delivered after the script
MaxFree == 5

\* number of declarations, blocks, statements and closing braces of a
\* well-formed source text
MaxItems == 4

-----------------------------------------------------------------------------
(* Text *)

RECURSIVE Join(_, _)
\* sep.join(ts)
Join(ts, sep) ==
    IF ts = <<>> THEN ""
    ELSE IF Len(ts) = 1 THEN ts[1]
    ELSE ts[1] \o sep \o Join(Tail(ts), sep)

RECURSIVE DropLeadingEmpty(_)
DropLeadingEmpty(ts) ==
    IF ts # <<>> /\ Head(ts) = "" THEN DropLeadingEmpty(Tail(ts)) ELSE ts

RECURSIVE DropTrailingEmpty(_)
DropTrailingEmpty(ts) ==
    IF ts # <<>> /\ ts[Len(ts)] = ""
    THEN DropTrailingEmpty(SubSeq(ts, 1, Len(ts) - 1)) ELSE ts

\* ' '.join(ts).strip(): no token holds white space, so stripping removes
\* exactly the separators next to leading and trailing empty tokens
JoinSpaceStrip(ts) == Join(DropTrailingEmpty(DropLeadingEmpty(ts)), " ")

\* ''.join(ts).strip(): without separators there is nothing to strip
JoinEmptyStrip(ts) == Join(ts, "")

\* the token ` (a raw-string quote), spelled out
Backtick == "<backtick>"

\* token in '()' : Python's substring test on the string '()'
InParens(tok) == tok \in {"", "(", ")", "()"}

-----------------------------------------------------------------------------
(* Context: function stack and events *)

GlobalFunction == [name |-> "*global*", long_name |-> "*global*", parameters |-> <<>>]

current_function(c) == c.funcs[Len(c.funcs)]

SetCurrent(c, f) == [c EXCEPT !.funcs[Len(c.funcs)] = f]

\* openFunction(name)
push_new_function(c, name) ==
    [c EXCEPT !.funcs = Append(@, [name |-> name, long_name |-> name, parameters |-> <<>>]),
              !.events = Append(@, <<"openFunction", name>>)]

\* setQualifiedName(name)
set_long_name(c, name) ==
    [SetCurrent(c, [current_function(c) EXCEPT !.long_name = name])
        EXCEPT !.events = Append(@, <<"setQualifiedName", name>>)]

\* addParameter(token)
parameter(c, tok) ==
    [SetCurrent(c, [current_function(c) EXCEPT !.parameters = Append(@, tok)])
        EXCEPT !.events = Append(@, <<"addParameter", tok>>)]

\* closeFunction(): the sentinel stays
end_of_function(c) ==
    [c EXCEPT !.funcs = IF Len(@) > 1 THEN SubSeq(@, 1, Len(@) - 1) ELSE @,
              !.events = Append(@, <<"closeFunction", current_function(c).name>>)]

add_to_function_name(c, app) ==
    SetCurrent(c, [current_function(c) EXCEPT !.name = @ \o app, !.long_name = @ \o app])

add_to_long_function_name(c, app) ==
    SetCurrent(c, [current_function(c) EXCEPT !.long_name = @ \o app])

\* negation of the test of golike.py lines 66-67 on stacked_functions, the
\* function stack without its top
peekEnclosingIsGlobal(c) ==
    ~ (Len(c.funcs) > 1 /\ c.funcs[Len(c.funcs) - 1].name # "*global*")

-----------------------------------------------------------------------------
(* Engine *)

\* a fresh machine instance: initial state, empty buffers
statemachine_clone(g) ==
    [state |-> "_state_global",
     saved_state |-> "_state_global",
     callback |-> "none",
     br_count |-> 0,
     last_token |-> "<none>",
     to_exit |-> FALSE,
     br_tokens |-> <<>>,
     collected_tokens |-> <<>>,
     possible_function_name |-> "<none>"]

Top(c) == c.stack[Len(c.stack)]

SetTop(c, m) == [c EXCEPT !.stack[Len(c.stack)] = m]

SetState(c, s) == SetTop(c, [Top(c) EXCEPT !.state = s])

\* enterNested(completionCallback)
sub_state(c, callback) ==
    LET m == Top(c)
        parent == [m EXCEPT !.saved_state = m.state,
                            !.callback = callback,
                            !.state = "<sub_machine>"]
    IN  [c EXCEPT !.stack = Append(SubSeq(@, 1, Len(@) - 1) \o <<parent>>,
                                   statemachine_clone(c.grammar))]

\* the top machine asks to be popped
statemachine_return(c) == SetTop(c, [Top(c) EXCEPT !.to_exit = TRUE])

\* consumeBalanced(openChar, closeChar, onDone): the depth counter is moved by
\* the two bracket characters, every token is buffered, and the follow-up
\* state is taken at depth zero (the buffer is then dropped); the wrapped
\* handler body sees the token afterwards
read_inside_brackets_then(c, tok, open, close, end_state) ==
    LET n == Top(c).br_count + (IF tok = open THEN 1 ELSE IF tok = close THEN -1 ELSE 0)
    IN  SetTop(c, [Top(c) EXCEPT !.br_count = n,
                                 !.br_tokens = IF n = 0 THEN <<>> ELSE Append(@, tok),
                                 !.state = IF n = 0 THEN end_state ELSE @])

-----------------------------------------------------------------------------
(* GoLikeStates, golike.py *)

\* self.next(self._s, token) moves the machine to state _s and delivers the
\* token to it again: it is written X_s(SetState(c, "_s"), tok), with X the
\* class whose method the name resolves to.  Handlers are listed callee first.

GoLike_state_global(c, tok) ==
    IF tok = "func" THEN push_new_function(SetState(c, "_function_name"), "")
    ELSE IF tok = "type" THEN SetState(c, "_type_definition")
    ELSE IF tok = "{" THEN sub_state(c, "none")
    ELSE IF tok = "}" THEN statemachine_return(c)
    ELSE c

GoLike_type_definition(c, tok) == SetState(c, "_after_type_name")

\* mutant: the body of a struct is not consumed
GoLike_after_type_name_SkipsStruct(c, tok) ==
    IF tok = "interface" THEN SetState(c, "_interface_definition")
    ELSE SetState(c, "_state_global")

GoLike_after_type_name(c, tok) ==
    IF tok = "struct" THEN SetState(c, "_struct_definition")
    ELSE IF tok = "interface" THEN SetState(c, "_interface_definition")
    ELSE SetState(c, "_state_global")

\* mutant: the bracket pair of another handler
GoLike_struct_definition_WrongPair(c, tok) ==
    read_inside_brackets_then(c, tok, "(", ")", "_state_global")

GoLike_struct_definition(c, tok) ==
    read_inside_brackets_then(c, tok, "{", "}", "_state_global")

GoLike_interface_definition(c, tok) ==
    read_inside_brackets_then(c, tok, "{", "}", "_state_global")

GoLike_generalize(c, tok) ==
    read_inside_brackets_then(c, tok, "<", ">", "_expect_function_dec")

GoLike_member_function(c, tok) ==
    add_to_long_function_name(
        read_inside_brackets_then(c, tok, "(", ")", "_function_name"), tok)

GoLike_function_dec(c, tok) ==
    LET d == read_inside_brackets_then(c, tok, "(", ")", "_expect_function_impl")
    IN  IF ~ InParens(tok) THEN parameter(d, tok) ELSE d

GoLike_function_impl(c, tok) == sub_state(c, "golike_function_impl")

GoLike_expect_function_impl(c, tok) ==
    IF tok = "{" /\ Top(c).last_token # "interface"
    THEN GoLike_function_impl(SetState(c, "_function_impl"), tok)
    ELSE c

GoLike_expect_function_dec(c, tok) ==
    IF tok = "(" THEN GoLike_function_dec(SetState(c, "_function_dec"), tok)
    ELSE IF tok = "<" THEN GoLike_generalize(SetState(c, "_generalize"), tok)
    ELSE SetState(c, "_state_global")

\* mutant: the enclosing function is not looked at
GoLike_function_name_AlwaysReceiver(c, tok) ==
    IF tok = Backtick THEN c
    ELSE IF tok = "(" THEN GoLike_member_function(SetState(c, "_member_function"), tok)
    ELSE IF tok = "{" THEN GoLike_expect_function_impl(SetState(c, "_expect_function_impl"), tok)
    ELSE SetState(add_to_function_name(c, tok), "_expect_function_dec")

GoLike_function_name(c, tok) ==
    IF tok = Backtick THEN c
    ELSE IF tok = "(" THEN
        IF ~ peekEnclosingIsGlobal(c)
        THEN GoLike_function_dec(SetState(c, "_function_dec"), tok)
        ELSE GoLike_member_function(SetState(c, "_member_function"), tok)
    ELSE IF tok = "{" THEN GoLike_expect_function_impl(SetState(c, "_expect_function_impl"), tok)
    ELSE SetState(add_to_function_name(c, tok), "_expect_function_dec")

\* callback of GoLikeStates._function_impl
GoLike_callback(c) == end_of_function(SetState(c, "_state_global"))

-----------------------------------------------------------------------------
(* GoStates, go.py *)

\* mutant: a plain block is pushed with the completion callback of a body
Go_state_global_ClosesPlainBlock(c, tok) ==
    IF tok = "func" THEN SetState(c, "_after_func")
    ELSE IF tok = "type" THEN SetState(c, "_type_definition")
    ELSE IF tok = "{" THEN sub_state(c, "go_function_impl")
    ELSE IF tok = "}" THEN statemachine_return(c)
    ELSE GoLike_state_global(c, tok)

Go_state_global(c, tok) ==
    IF tok = "func" THEN SetState(c, "_after_func")
    ELSE IF tok = "type" THEN SetState(c, "_type_definition")
    ELSE IF tok = "{" THEN sub_state(c, "none")
    ELSE IF tok = "}" THEN statemachine_return(c)
    ELSE GoLike_state_global(c, tok)

Go_function_impl(c, tok) == sub_state(c, "go_function_impl")

Go_multi_return_type(c, tok) ==
    read_inside_brackets_then(c, tok, "(", ")", "_expect_function_impl")

\* mutant: the array type is left at the first ] whatever the depth
Go_array_return_type_LeavesAtFirstClose(c, tok) ==
    IF tok = "]"
    THEN SetState(read_inside_brackets_then(c, tok, "[", "]", "_read_return_type"), "_read_return_type")
    ELSE read_inside_brackets_then(c, tok, "[", "]", "_read_return_type")

Go_array_return_type(c, tok) ==
    read_inside_brackets_then(c, tok, "[", "]", "_read_return_type")

\* mutant: the brace of the return type is taken for a block
Go_interface_return_type_Pushes(c, tok) ==
    IF tok = "{" THEN sub_state(c, "none")
    ELSE read_inside_brackets_then(c, tok, "{", "}", "_expect_function_impl")

Go_interface_return_type(c, tok) ==
    read_inside_brackets_then(c, tok, "{", "}", "_expect_function_impl")

Go_function_type(c, tok) ==
    read_inside_brackets_then(c, tok, "(", ")", "_expect_function_impl")

Go_read_type_parameters(c, tok) ==
    read_inside_brackets_then(c, tok, "<", ">", "_after_parameters")

Go_read_return_type(c, tok) ==
    IF tok = "{" THEN Go_function_impl(SetState(c, "_function_impl"), tok)
    ELSE IF tok = "(" THEN Go_multi_return_type(SetState(c, "_multi_return_type"), tok)
    ELSE IF tok = "interface" THEN SetState(c, "_interface_return_type")
    ELSE IF tok = "func" THEN SetState(c, "_function_type")
    ELSE IF tok = "[" THEN Go_array_return_type(SetState(c, "_array_return_type"), tok)
    ELSE SetState(c, "_read_return_type")

Go_after_parameters(c, tok) ==
    IF tok = "<" THEN SetState(c, "_read_type_parameters")
    ELSE IF tok = "(" THEN Go_multi_return_type(SetState(c, "_multi_return_type"), tok)
    ELSE IF tok = "{" THEN Go_function_impl(SetState(c, "_function_impl"), tok)
    ELSE IF tok # "" THEN Go_read_return_type(SetState(c, "_read_return_type"), tok)
    ELSE SetState(c, "_expect_function_impl")

\* mutant: the follow-up state of the decorator names no method
Go_function_dec_UnknownFollowUp(c, tok) ==
    IF ~ InParens(tok)
    THEN parameter(read_inside_brackets_then(c, tok, "(", ")", "_after_parameter"), tok)
    ELSE read_inside_brackets_then(c, tok, "(", ")", "_after_parameter")

Go_function_dec(c, tok) ==
    LET d == read_inside_brackets_then(c, tok, "(", ")", "_after_parameters")
    IN  IF ~ InParens(tok) THEN parameter(d, tok) ELSE d

Go_expect_function_dec(c, tok) ==
    IF tok = "(" THEN Go_function_dec(SetState(c, "_function_dec"), tok)
    ELSE Go_after_parameters(SetState(c, "_after_parameters"), tok)

Go_expect_function_impl(c, tok) ==
    IF tok = "interface" THEN SetState(c, "_interface_return_type")
    ELSE IF tok = "{" THEN Go_function_impl(SetState(c, "_function_impl"), tok)
    ELSE SetState(c, "_expect_function_impl")

\* mutant: the receiver is joined like the parameters of the fallback branch
Go_check_for_parameters_JoinsReceiverBare(c, tok) ==
    IF tok = "(" THEN
        Go_function_dec(
            SetState(set_long_name(push_new_function(c, Top(c).possible_function_name),
                        IF JoinEmptyStrip(Top(c).collected_tokens) # ""
                        THEN "(" \o JoinEmptyStrip(Top(c).collected_tokens) \o ")"
                                 \o Top(c).possible_function_name
                        ELSE Top(c).possible_function_name),
                     "_function_dec"), tok)
    ELSE
        Go_after_parameters(
            SetState(set_long_name(push_new_function(c, "(anonymous)"), "(anonymous)"),
                     "_after_parameters"), tok)

Go_check_for_parameters(c, tok) ==
    IF tok = "(" THEN
        LET name == Top(c).possible_function_name
            d == push_new_function(c, name)
            receiver == JoinSpaceStrip(Top(c).collected_tokens)
            long_name == IF receiver # "" THEN "(" \o receiver \o ")" \o name ELSE name
        IN  Go_function_dec(SetState(set_long_name(d, long_name), "_function_dec"), tok)
    ELSE
        LET d == set_long_name(push_new_function(c, "(anonymous)"), "(anonymous)")
            params == JoinEmptyStrip(Top(c).collected_tokens)
            e == IF params # "" THEN parameter(d, params) ELSE d
            f == SetTop(e, [Top(e) EXCEPT !.collected_tokens = <<>>])
        IN  Go_after_parameters(SetState(f, "_after_parameters"), tok)

\* mutant: a ) after the first parentheses is taken for a tentative name
Go_after_receiver_or_parameters_TakesParenAsName(c, tok) ==
    IF tok = Backtick THEN c
    ELSE IF tok \notin {"{", "(", "func"} THEN
        SetTop(c, [Top(c) EXCEPT !.possible_function_name = tok,
                                 !.state = "_check_for_parameters"])
    ELSE
        Go_after_parameters(
            SetState(IF JoinSpaceStrip(Top(c).collected_tokens) # ""
                     THEN parameter(push_new_function(c, "(anonymous)"),
                                    JoinSpaceStrip(Top(c).collected_tokens))
                     ELSE push_new_function(c, "(anonymous)"),
                     "_after_parameters"), tok)

\* mutant: anonymous functions are numbered by a counter that lives outside
\* the machine and the Context and goes on counting from run to run
Go_after_receiver_or_parameters_NumbersByGlobalCounter(c, tok) ==
    IF tok = Backtick THEN c
    ELSE IF tok \notin {"{", "(", ")", "func"} THEN
        SetTop(c, [Top(c) EXCEPT !.possible_function_name = tok,
                                 !.state = "_check_for_parameters"])
    ELSE
        Go_after_parameters(
            SetState(push_new_function(c, IF Len(trail) > 4 THEN "(anonymous)2"
                                          ELSE "(anonymous)"),
                     "_after_parameters"), tok)

Go_after_receiver_or_parameters(c, tok) ==
    IF tok = Backtick THEN c
    ELSE IF tok \notin {"{", "(", ")", "func"} THEN
        SetTop(c, [Top(c) EXCEPT !.possible_function_name = tok,
                                 !.state = "_check_for_parameters"])
    ELSE
        LET d == push_new_function(c, "(anonymous)")
            params == JoinSpaceStrip(Top(c).collected_tokens)
            e == IF params # "" THEN parameter(d, params) ELSE d
        IN  Go_after_parameters(SetState(e, "_after_parameters"), tok)

\* mutant: the buffer is one list shared by all the machines
Go_collect_receiver_or_parameters_SharesBuffer(c, tok) ==
    IF tok = ")" THEN SetState(c, "_after_receiver_or_parameters")
    ELSE [c EXCEPT !.stack = [i \in 1..Len(c.stack) |->
            [c.stack[i] EXCEPT !.collected_tokens = Append(@, tok)]]]

Go_collect_receiver_or_parameters(c, tok) ==
    IF tok = ")" THEN SetState(c, "_after_receiver_or_parameters")
    ELSE SetTop(c, [Top(c) EXCEPT !.collected_tokens = Append(@, tok)])

Go_after_func(c, tok) ==
    IF tok = "(" THEN
        SetTop(c, [Top(c) EXCEPT !.collected_tokens = <<>>,
                                 !.state = "_collect_receiver_or_parameters"])
    ELSE IF tok \notin {"{", "(", ""} THEN
        SetState(set_long_name(push_new_function(c, tok), tok), "_expect_function_dec")
    ELSE
        Go_after_parameters(SetState(set_long_name(push_new_function(c, "(anonymous)"), "(anonymous)"), "_after_parameters"), tok)

\* mutant: the callback forgets to put the machine back in the global state
Go_callback_KeepsState(c) == end_of_function(c)

\* callback of GoStates._function_impl
Go_callback(c) == SetState(end_of_function(c), "_state_global")

-----------------------------------------------------------------------------
(* The C-family base grammar, as far as JavaStates relies on it *)

\* the states of the base grammar other than the global state and
\* _state_old_c_params stand as one
BaseStates == {"_state_function", "_state_old_c_params"}

\* the base global handler sees the token and goes where the base grammar
\* takes it
CLike_state_global(c, tok, goes) ==
    SetState([c EXCEPT !.events = Append(@, <<"base_global", tok>>)], goes)

\* a base state other than the global state consumes the token
CLike_state_function(c, tok, goes) == SetState(c, goes)

\* the base grammar turns the pending declaration into an implementation
CLike_state_dec_to_imp(c, tok) == SetState(c, "_state_function")

-----------------------------------------------------------------------------
(* JavaStates *)

Java_state_old_c_params(c, tok) ==
    IF tok = "{" THEN CLike_state_dec_to_imp(c, tok) ELSE c

Java_state_global(c, tok, goes) ==
    IF tok = "@" THEN SetState(c, "_state_decorator")
    ELSE CLike_state_global(c, tok, goes)

Java_state_decorator(c, tok) == SetState(c, "_state_post_decorator")

Java_state_post_decorator_DropsToken(c, tok, goes) ==
    IF tok = "." THEN SetState(c, "_state_decorator")
    ELSE SetState(c, "_state_global")

Java_state_post_decorator(c, tok, goes) ==
    IF tok = "." THEN SetState(c, "_state_decorator")
    ELSE Java_state_global(SetState(c, "_state_global"), tok, goes)

-----------------------------------------------------------------------------
(* Method resolution and delivery *)

\* the handler a state name resolves to on an instance of the class of the grammar
Dispatch(c, tok) ==
    LET s == Top(c).state
        go == c.grammar = "go"
    IN  CASE s = "_state_global" ->
                IF go THEN Go_state_global(c, tok) ELSE GoLike_state_global(c, tok)
          [] s = "_type_definition" -> GoLike_type_definition(c, tok)
          [] s = "_after_type_name" -> GoLike_after_type_name(c, tok)
          [] s = "_struct_definition" -> GoLike_struct_definition(c, tok)
          [] s = "_interface_definition" -> GoLike_interface_definition(c, tok)
          [] s = "_function_name" -> GoLike_function_name(c, tok)
          [] s = "_generalize" -> GoLike_generalize(c, tok)
          [] s = "_member_function" -> GoLike_member_function(c, tok)
          [] s = "_expect_function_dec" ->
                IF go THEN Go_expect_function_dec(c, tok)
                ELSE GoLike_expect_function_dec(c, tok)
          [] s = "_function_dec" ->
                IF go THEN Go_function_dec(c, tok) ELSE GoLike_function_dec(c, tok)
          [] s = "_expect_function_impl" ->
                IF go THEN Go_expect_function_impl(c, tok)
                ELSE GoLike_expect_function_impl(c, tok)
          [] s = "_function_impl" ->
                IF go THEN Go_function_impl(c, tok) ELSE GoLike_function_impl(c, tok)
          [] s = "_after_func" -> Go_after_func(c, tok)
          [] s = "_collect_receiver_or_parameters" ->
                Go_collect_receiver_or_parameters(c, tok)
          [] s = "_after_receiver_or_parameters" ->
                Go_after_receiver_or_parameters(c, tok)
          [] s = "_check_for_parameters" -> Go_check_for_parameters(c, tok)
          [] s = "_after_parameters" -> Go_after_parameters(c, tok)
          [] s = "_read_type_parameters" -> Go_read_type_parameters(c, tok)
          [] s = "_multi_return_type" -> Go_multi_return_type(c, tok)
          [] s = "_read_return_type" -> Go_read_return_type(c, tok)
          [] s = "_interface_return_type" -> Go_interface_return_type(c, tok)
          [] s = "_function_type" -> Go_function_type(c, tok)
          [] s = "_array_return_type" -> Go_array_return_type(c, tok)

\* the completion callback stored by sub_state
RunCallback(c, cb) ==
    IF cb = "go_function_impl" THEN Go_callback(c)
    ELSE IF cb = "golike_function_impl" THEN GoLike_callback(c)
    ELSE c

\* leaveNested(): pop the top machine, put the parent back in the state it
\* saved at the push, then run the stored completion callback
leaveNested(c) ==
    LET n == Len(c.stack) - 1
        parent == [c.stack[n] EXCEPT !.state = c.stack[n].saved_state]
        d == [c EXCEPT !.stack = Append(SubSeq(@, 1, n - 1), parent)]
    IN  RunCallback(d, parent.callback)

\* every machine that was active when the token arrived remembers it as its
\* last token (a machine pushed by this token has not been called yet)
Remember(d, old, tok) ==
    [d EXCEPT !.stack = [i \in 1..Len(d.stack) |->
        IF i <= old THEN [d.stack[i] EXCEPT !.last_token = tok] ELSE d.stack[i]]]

\* a nested machine that asked to be popped is popped; the base machine stays
Leave(e) == IF Top(e).to_exit /\ Len(e.stack) > 1 THEN leaveNested(e) ELSE e

\* advance(token): the top machine handles the token
advance(c, tok) == Leave(Remember(Dispatch(c, tok), Len(c.stack), tok))

-----------------------------------------------------------------------------
(* The token stream and the parse *)

\* the tokens the lexer can deliver next
NextTokens ==
    IF script # <<>> THEN {Head(script)}
    ELSE IF budget > 0 THEN alpha
    ELSE {}

Config == [grammar |-> grammar, stack |-> stack, funcs |-> funcs, events |-> events]

\* the state the top machine rests in
Resting == Top(Config).state

\* the token has been handled and the parse is in configuration c
Arrive(c, tok) ==
    /\ stack' = c.stack
    /\ funcs' = c.funcs
    /\ events' = c.events
    /\ input' = Append(input, tok)
    /\ trail' = Append(trail, Resting)
    /\ script' = IF script # <<>> THEN Tail(script) ELSE script
    /\ budget' = IF script # <<>> THEN budget ELSE budget - 1
    /\ UNCHANGED <<grammar, alpha, gen>>

\* one call of the reader with one token
Deliver(tok) == Arrive(advance(Config, tok), tok)

\* no source text is being written
NoSource == [open |-> <<>>, expected |-> <<>>]

\* a parse starts with a fresh base machine and a fresh Context
Start(g, cases) ==
    /\ grammar = g
    /\ \E k \in cases : script = k.script /\ alpha = k.alpha
    /\ budget = MaxFree
    /\ gen = NoSource
    /\ input = <<>>
    /\ trail = <<>>
    /\ stack = <<statemachine_clone(g)>>
    /\ funcs = <<GlobalFunction>>
    /\ events = <<>>

\* token streams of the Go parse: a fixed beginning, then any tokens of a set
GoCases ==
    { [script |-> <<>>,
       alpha |-> {"func", "(", ")", "{", "}", "x"}],
      [script |-> <<"func", "(", "r", "*T", ")">>,
       alpha |-> {"Bar", "(", ")", "{", "}", "func", Backtick}],
      [script |-> <<"func", "(", ")">>,
       alpha |-> {"Bar", "(", ")", "{", "}", "a"}],
      [script |-> <<"func", "Foo">>,
       alpha |-> {"<", ">", "A", "(", ")", "{", "}"}],
      [script |-> <<"type", "Foo">>,
       alpha |-> {"struct", "interface", "{", "}", "func", "x"}],
      [script |-> <<"{", "type", "Foo">>,
       alpha |-> {"struct", "{", "}", "func", "x"}],
      [script |-> <<"func", "f", "(", ")">>,
       alpha |-> {"interface", "func", "int", "[", "]", "{", "}", "("}],
      [script |-> <<>>,
       alpha |-> {"func", "", "(", ")", "{", "}"}],
      [script |-> <<"func", "(", "x", ")">>,
       alpha |-> {"interface", "int", "{", "}"}] }

\* token streams of the Go-family base parse
GoLikeCases ==
    { [script |-> <<>>,
       alpha |-> {"func", "(", ")", "{", "}", "x"}],
      [script |-> <<"func", "Foo">>,
       alpha |-> {"<", ">", "A", "(", ")", "{", "}"}],
      [script |-> <<"func", "f", "(", ")", "{", "func">>,
       alpha |-> {"(", ")", "x", "{", "}", Backtick}],
      [script |-> <<"func", "(", "r", ")">>,
       alpha |-> {"Bar", "(", ")", "{", "}", "interface"}] }

Init == Start("go", GoCases) \/ Start("golike", GoLikeCases)

\* a token arrives while the top machine rests in _state_global
state_global_step ==
    /\ grammar # "java"
    /\ Resting = "_state_global"
    /\ \E tok \in NextTokens : Deliver(tok)

\* a token arrives while the top machine rests in _type_definition
type_definition_step ==
    /\ Resting = "_type_definition"
    /\ \E tok \in NextTokens : Deliver(tok)

\* a token arrives while the top machine rests in _after_type_name
after_type_name_step ==
    /\ Resting = "_after_type_name"
    /\ \E tok \in NextTokens : Deliver(tok)

\* a token arrives while the top machine rests in _struct_definition
struct_definition_step ==
    /\ Resting = "_struct_definition"
    /\ \E tok \in NextTokens : Deliver(tok)

\* a token arrives while the top machine rests in _interface_definition
interface_definition_step ==
    /\ Resting = "_interface_definition"
    /\ \E tok \in NextTokens : Deliver(tok)

\* a token arrives while the top machine rests in _after_func
after_func_step ==
    /\ Resting = "_after_func"
    /\ \E tok \in NextTokens : Deliver(tok)

\* a token arrives while the top machine rests in _collect_receiver_or_parameters
collect_receiver_or_parameters_step ==
    /\ Resting = "_collect_receiver_or_parameters"
    /\ \E tok \in NextTokens : Deliver(tok)

\* a token arrives while the top machine rests in _after_receiver_or_parameters
after_receiver_or_parameters_step ==
    /\ Resting = "_after_receiver_or_parameters"
    /\ \E tok \in NextTokens : Deliver(tok)

\* a token arrives while the top machine rests in _check_for_parameters
check_for_parameters_step ==
    /\ Resting = "_check_for_parameters"
    /\ \E tok \in NextTokens : Deliver(tok)

\* a token arrives while the top machine rests in _expect_function_dec
expect_function_dec_step ==
    /\ Resting = "_expect_function_dec"
    /\ \E tok \in NextTokens : Deliver(tok)

\* a token arrives while the top machine rests in _function_dec
function_dec_step ==
    /\ Resting = "_function_dec"
    /\ \E tok \in NextTokens : Deliver(tok)

\* a token arrives while the top machine rests in _after_parameters
after_parameters_step ==
    /\ Resting = "_after_parameters"
    /\ \E tok \in NextTokens : Deliver(tok)

\* a token arrives while the top machine rests in _read_type_parameters
read_type_parameters_step ==
    /\ Resting = "_read_type_parameters"
    /\ \E tok \in NextTokens : Deliver(tok)

\* a token arrives while the top machine rests in _multi_return_type
multi_return_type_step ==
    /\ Resting = "_multi_return_type"
    /\ \E tok \in NextTokens : Deliver(tok)

\* a token arrives while the top machine rests in _read_return_type
read_return_type_step ==
    /\ Resting = "_read_return_type"
    /\ \E tok \in NextTokens : Deliver(tok)

\* a token arrives while the top machine rests in _interface_return_type
interface_return_type_step ==
    /\ Resting = "_interface_return_type"
    /\ \E tok \in NextTokens : Deliver(tok)

\* a token arrives while the top machine rests in _function_type
function_type_step ==
    /\ Resting = "_function_type"
    /\ \E tok \in NextTokens : Deliver(tok)

\* a token arrives while the top machine rests in _array_return_type
array_return_type_step ==
    /\ Resting = "_array_return_type"
    /\ \E tok \in NextTokens : Deliver(tok)

\* a token arrives while the top machine rests in _expect_function_impl
expect_function_impl_step ==
    /\ Resting = "_expect_function_impl"
    /\ \E tok \in NextTokens : Deliver(tok)

\* a token arrives while the top machine rests in _function_name
function_name_step ==
    /\ Resting = "_function_name"
    /\ \E tok \in NextTokens : Deliver(tok)

\* a token arrives while the top machine rests in _generalize
generalize_step ==
    /\ Resting = "_generalize"
    /\ \E tok \in NextTokens : Deliver(tok)

\* a token arrives while the top machine rests in _member_function
member_function_step ==
    /\ Resting = "_member_function"
    /\ \E tok \in NextTokens : Deliver(tok)

Next ==
    \/ state_global_step
    \/ type_definition_step
    \/ after_type_name_step
    \/ struct_definition_step
    \/ interface_definition_step
    \/ after_func_step
    \/ collect_receiver_or_parameters_step
    \/ after_receiver_or_parameters_step
    \/ check_for_parameters_step
    \/ expect_function_dec_step
    \/ function_dec_step
    \/ after_parameters_step
    \/ read_type_parameters_step
    \/ multi_return_type_step
    \/ read_return_type_step
    \/ interface_return_type_step
    \/ function_type_step
    \/ array_return_type_step
    \/ expect_function_impl_step
    \/ function_name_step
    \/ generalize_step
    \/ member_function_step

\* the parse of a token stream by GoStates or by GoLikeStates
Spec == Init /\ [][Next]_vars

-----------------------------------------------------------------------------
(* The Java parse *)

JavaCases ==
    { [script |-> <<>>,
       alpha |-> {"@", ".", "a", "{"}] }

InitJava == Start("java", JavaCases)

\* where the base grammar may go from its global state
FromGlobal == {"_state_global", "_state_function"}

\* where the base grammar may go from its other states
FromBase == {"_state_global", "_state_function", "_state_old_c_params"}

Java_state_global_step ==
    /\ grammar = "java"
    /\ Resting = "_state_global"
    /\ \E tok \in NextTokens, goes \in FromGlobal :
         Arrive(Remember(Java_state_global(Config, tok, goes), 1, tok), tok)

state_decorator_step ==
    /\ Resting = "_state_decorator"
    /\ \E tok \in NextTokens :
         Arrive(Remember(Java_state_decorator(Config, tok), 1, tok), tok)

state_post_decorator_step ==
    /\ Resting = "_state_post_decorator"
    /\ \E tok \in NextTokens, goes \in FromGlobal :
         Arrive(Remember(Java_state_post_decorator(Config, tok, goes), 1, tok), tok)

state_old_c_params_step ==
    /\ Resting = "_state_old_c_params"
    /\ \E tok \in NextTokens :
         Arrive(Remember(Java_state_old_c_params(Config, tok), 1, tok), tok)

CLike_state_function_step ==
    /\ Resting = "_state_function"
    /\ \E tok \in NextTokens, goes \in FromBase :
         Arrive(Remember(CLike_state_function(Config, tok, goes), 1, tok), tok)

NextJava ==
    \/ Java_state_global_step
    \/ state_decorator_step
    \/ state_post_decorator_step
    \/ state_old_c_params_step
    \/ CLike_state_function_step

\* the parse of any tokens by JavaStates
SpecJava == InitJava /\ [][NextJava]_vars

-----------------------------------------------------------------------------
(* The three grammars side by side *)

InitAll == Init \/ InitJava

NextAll == Next \/ NextJava

\* the parse of any tokens by GoStates, GoLikeStates or JavaStates
SpecAll == InitAll /\ [][NextAll]_vars

-----------------------------------------------------------------------------
(* Well-formed Go source text *)

\* headers of well-formed function declarations, up to the { of the body,
\* with the name the function is to be opened with
Headers ==
    { [name |-> "Foo", tokens |-> <<"func", "Foo", "(", "a", "int", ")", "{">>],
      [name |-> "Bar", tokens |-> <<"func", "(", "r", "*T", ")", "Bar", "(", ")", "{">>],
      [name |-> "(anonymous)", tokens |-> <<"func", "(", "x", "int", ")", "{">>],
      [name |-> "(anonymous)", tokens |-> <<"func", "(", ")", "{">>],
      [name |-> "(anonymous)", tokens |-> <<"func", "(", "y", "int", ")", "int", "{">>],
      [name |-> "Foo", tokens |-> <<"func", "Foo", "(", ")", "int", "{">>],
      [name |-> "Foo", tokens |-> <<"func", "Foo", "(", ")", "(", "int", ",", "error", ")", "{">>],
      [name |-> "Foo", tokens |-> <<"func", "Foo", "(", ")", "interface", "{", "}", "{">>],
      [name |-> "Foo", tokens |-> <<"func", "Foo", "(", ")", "[", "]", "int", "{">>],
      [name |-> "Foo", tokens |-> <<"func", "Foo", "(", ")", "func", "(", ")", "{">>],
      [name |-> "Foo", tokens |-> <<"func", "Foo", "(", ")", "struct", "{", "}", "{">>] }

\* the lexer is between two items of the source text
BetweenItems == script = <<>> /\ budget > 0

Write(tokens, g) ==
    /\ script' = tokens
    /\ budget' = budget - 1
    /\ gen' = g
    /\ UNCHANGED <<grammar, alpha, input, trail, stack, funcs, events>>

\* the source text goes on with a function declaration, a method declaration
\* or a function literal, up to the { of its body
WriteDeclaration ==
    /\ BetweenItems
    /\ \E h \in Headers :
         Write(h.tokens,
               [open |-> Append(gen.open, h.name),
                expected |-> Append(gen.expected, <<"openFunction", h.name>>)])

\* the source text goes on with the { of a block inside a body
WriteBlock ==
    /\ BetweenItems
    /\ gen.open # <<>>
    /\ Write(<<"{">>, [gen EXCEPT !.open = Append(@, "{")])

\* the source text goes on with a statement of one token
WriteStatement ==
    /\ BetweenItems
    /\ Write(<<"x">>, gen)

\* the source text goes on with the } of the innermost open body or block
WriteClose ==
    /\ BetweenItems
    /\ gen.open # <<>>
    /\ Write(<<"}">>,
             [open |-> SubSeq(gen.open, 1, Len(gen.open) - 1),
              expected |-> IF gen.open[Len(gen.open)] = "{" THEN gen.expected
                           ELSE Append(gen.expected,
                                       <<"closeFunction", gen.open[Len(gen.open)]>>)])

InitDecl ==
    /\ grammar = "go"
    /\ script = <<>>
    /\ alpha = {}
    /\ budget = MaxItems
    /\ gen = NoSource
    /\ input = <<>>
    /\ trail = <<>>
    /\ stack = <<statemachine_clone("go")>>
    /\ funcs = <<GlobalFunction>>
    /\ events = <<>>

NextDecl ==
    \/ WriteDeclaration
    \/ WriteBlock
    \/ WriteStatement
    \/ WriteClose
    \/ state_global_step
    \/ after_func_step
    \/ collect_receiver_or_parameters_step
    \/ after_receiver_or_parameters_step
    \/ check_for_parameters_step
    \/ expect_function_dec_step
    \/ function_dec_step
    \/ after_parameters_step
    \/ multi_return_type_step
    \/ read_return_type_step
    \/ interface_return_type_step
    \/ function_type_step
    \/ array_return_type_step
    \/ expect_function_impl_step

\* the parse by GoStates of a source text made of well-formed declarations
SpecDecl == InitDecl /\ [][NextDecl]_vars

-----------------------------------------------------------------------------
(* Reference notions the properties are stated with *)

\* how many events of a kind the Context has received
CountEvents(kind) == Cardinality({i \in 1..Len(events) : events[i][1] = kind})

Opens == CountEvents("openFunction")

Closes == CountEvents("closeFunction")

\* opening minus closing brackets of one kind in a token sequence
Net(ts, open, close) ==
    Cardinality({i \in 1..Len(ts) : ts[i] = open})
        - Cardinality({i \in 1..Len(ts) : ts[i] = close})

\* every closing bracket matches an earlier opening one and none is left open
Balanced(ts, open, close) ==
    /\ Net(ts, open, close) = 0
    /\ \A k \in 1..Len(ts) : Net(SubSeq(ts, 1, k), open, close) >= 0

\* a bracket run that starts with its opening bracket and is not closed yet
OpenRun(ts, open, close) ==
    /\ ts # <<>>
    /\ ts[1] = open
    /\ \A k \in 1..Len(ts) : Net(SubSeq(ts, 1, k), open, close) > 0

\* a bracket run that starts with its opening bracket and whose last token is
\* the matching closing bracket
ClosedRun(ts, open, close) ==
    /\ Len(ts) >= 2
    /\ OpenRun(SubSeq(ts, 1, Len(ts) - 1), open, close)
    /\ Net(ts, open, close) = 0

InputComplete ==
    /\ Balanced(input, "{", "}")
    /\ Balanced(input, "(", ")")
    /\ Balanced(input, "<", ">")
    /\ Balanced(input, "[", "]")

LastToken == input[Len(input)]

-----------------------------------------------------------------------------
(* C1 *)

\* C1: when the input is complete (brackets of every kind balanced) and ends
\* with a closing brace, every openFunction has been matched by a
\* closeFunction and the function stack holds only the global sentinel.
C1_EveryOpenedFunctionIsClosed ==
    (input # <<>> /\ LastToken = "}" /\ InputComplete)
        => (Closes = Opens /\ Len(funcs) = 1)

-----------------------------------------------------------------------------
(* C3 *)

\* the balanced-consumption states of the two grammars
BracketStates ==
    {"_struct_definition", "_interface_definition", "_generalize", "_member_function",
     "_function_dec", "_read_type_parameters", "_multi_return_type",
     "_interface_return_type", "_function_type", "_array_return_type"}

BracketOpen(s) ==
    CASE s \in {"_struct_definition", "_interface_definition", "_interface_return_type"} -> "{"
      [] s \in {"_generalize", "_read_type_parameters"} -> "<"
      [] s = "_array_return_type" -> "["
      [] OTHER -> "("

BracketClose(s) ==
    CASE s \in {"_struct_definition", "_interface_definition", "_interface_return_type"} -> "}"
      [] s \in {"_generalize", "_read_type_parameters"} -> ">"
      [] s = "_array_return_type" -> "]"
      [] OTHER -> ")"

\* the top machine is inside a run that began with the opening bracket
InOpenedRun ==
    /\ Resting \in BracketStates
    /\ Top(Config).br_tokens # <<>>
    /\ Top(Config).br_tokens[1] = BracketOpen(Resting)

\* inside such a run the depth counter is the net depth of the run so far and
\* has not been zero before
C3_RunDepth ==
    InOpenedRun =>
        /\ OpenRun(Top(Config).br_tokens, BracketOpen(Resting), BracketClose(Resting))
        /\ Top(Config).br_count
             = Net(Top(Config).br_tokens, BracketOpen(Resting), BracketClose(Resting))

\* a token of a run that begins with the opening bracket makes the machine
\* leave the state exactly when it returns the net depth to zero, and pushes
\* or pops no machine
C3_RunStep ==
    (/\ Resting \in BracketStates
     /\ Append(Top(Config).br_tokens, input'[Len(input')])[1] = BracketOpen(Resting))
    => /\ Len(stack') = Len(stack)
       /\ (stack'[Len(stack')].state # Resting)
            <=> (Net(Append(Top(Config).br_tokens, input'[Len(input')]),
                     BracketOpen(Resting), BracketClose(Resting)) = 0)

\* C3: a balanced-bracket consumption state entered with its opening bracket
\* leaves for its follow-up state exactly at the token that returns the depth
\* to zero, never at an inner closing bracket and never later.
C3_BalancedRunEndsAtMatchingBracket == []C3_RunDepth /\ [][C3_RunStep]_vars

\* the run < A < > > of generic parameters, with a nested pair, has just ended
C3_Witness ==
    /\ grammar = "golike"
    /\ input = <<"func", "Foo", "<", "A", "<", ">", ">">>
    /\ Resting = "_expect_function_dec"
    /\ Top(Config).br_count = 0

-----------------------------------------------------------------------------
(* C4 *)

\* the tokens from the first < after the name of func Name < ...
GenericRun == SubSeq(input, 3, Len(input))

NamedFuncThenAngle ==
    /\ grammar = "go"
    /\ Len(input) >= 3
    /\ input[1] = "func"
    /\ input[2] \notin {"(", "{", ""}
    /\ input[3] = "<"

\* C4: in GoStates a < after the function name starts a balanced consumption:
\* up to the > matching that first < the machine stays in the
\* generic-parameter state, and at the matching > it is back in the state that
\* reads what follows the name.
C4_GenericListConsumedWhole ==
    NamedFuncThenAngle =>
        /\ OpenRun(GenericRun, "<", ">") => Resting = "_read_type_parameters"
        /\ ClosedRun(GenericRun, "<", ">") => Resting = "_after_parameters"

-----------------------------------------------------------------------------
(* C5 *)

\* the last token delivered by the step
Token == input'[Len(input')]

\* the step pops a machine
Pops == Len(stack') < Len(stack)

\* the step pushes a machine
Pushes == Len(stack') > Len(stack)

\* the machine below the top, before the step, and what it is after the step
Parent == stack[Len(stack) - 1]

Resumed == stack'[Len(stack')]

\* C5 as claimed: the stack never gets empty, and a parent resumes in the
\* state it was in when it pushed (the state sub_state saved).
C5_PopRestoresPrePushState ==
    /\ [](Len(stack) >= 1)
    /\ [][Pops => Resumed.state = Parent.saved_state]_vars

C5_ResumeStep ==
    Pops =>
        /\ Len(stack') = Len(stack) - 1
        /\ Resumed.state = "_state_global"
        /\ Parent.callback = "none" => Parent.saved_state = "_state_global"
        /\ Parent.callback # "none" => Parent.saved_state = "_function_impl"
        /\ Resumed.br_count = Parent.br_count
        /\ Resumed.collected_tokens = Parent.collected_tokens
        /\ Resumed.possible_function_name = Parent.possible_function_name

\* C5 amended: the stack never gets empty, and a parent resumes in the global
\* state with its buffers as they were at the push; the global state is the
\* state before the push for a plain block, while a function body was pushed
\* from _function_impl and its callback moves the parent on to the global state.
C5_PopResumesInGlobalState ==
    /\ [](Len(stack) >= 1)
    /\ [][C5_ResumeStep]_vars

\* a function body has been pushed and popped, and an unmatched } has reached
\* the base machine
C5_Witness ==
    /\ grammar = "go"
    /\ input = <<"func", "f", "(", ")", "{", "}", "}">>
    /\ Len(stack) = 1
    /\ Resting = "_state_global"
    /\ Top(Config).to_exit

-----------------------------------------------------------------------------
(* C6 *)

RECURSIVE BraceDepthFrom(_, _)
\* the brace-nesting depth after ts, from depth d: a } without a { is ignored
BraceDepthFrom(ts, d) ==
    IF ts = <<>> THEN d
    ELSE BraceDepthFrom(Tail(ts),
            IF Head(ts) = "{" THEN d + 1
            ELSE IF Head(ts) = "}" /\ d > 0 THEN d - 1
            ELSE d)

BraceDepth == BraceDepthFrom(input, 0)

\* C6 as claimed: the number of nested machines is the brace-nesting depth.
C6_StackDepthIsBraceDepth == grammar = "go" => Len(stack) - 1 = BraceDepth

C6_BraceStep ==
    grammar = "go" =>
        /\ Pushes => (Len(stack') = Len(stack) + 1 /\ Token = "{")
        /\ Pops => (Len(stack') = Len(stack) - 1 /\ Token = "}"
                        /\ Resting = "_state_global")
        /\ Resting \in BracketStates => Len(stack') = Len(stack)

\* C6 amended: only a { pushes a machine and only a } handled in the global
\* state of a nested machine pops one, one machine at a time; a token read by
\* a balanced consumption (struct and interface bodies, interface return
\* types, bracket lists) pushes and pops nothing, so the number of nested
\* machines is at most the number of { consumed.
C6_OnlyBracesMoveTheStack ==
    /\ [](grammar = "go" => Len(stack) - 1 <= Cardinality({i \in 1..Len(input) : input[i] = "{"}))
    /\ [][C6_BraceStep]_vars

\* two braces of a struct body are open and no machine has been pushed
C6_Witness ==
    /\ grammar = "go"
    /\ Resting = "_struct_definition"
    /\ BraceDepth = 2
    /\ Len(stack) = 1

-----------------------------------------------------------------------------
(* C7 *)

\* the input begins func ( ... ) : the first parenthesis run ends at its first )
HasFirstClose ==
    /\ Len(input) >= 3
    /\ input[1] = "func"
    /\ input[2] = "("
    /\ \E k \in 3..Len(input) : input[k] = ")"

FirstClose == CHOOSE k \in 3..Len(input) :
    input[k] = ")" /\ \A j \in 3..(k - 1) : input[j] # ")"

\* the tokens buffered inside the first parentheses
Buffered == SubSeq(input, 3, FirstClose - 1)

\* func ( ... ) N (
MethodShape ==
    /\ grammar = "go"
    /\ HasFirstClose
    /\ Len(input) >= FirstClose + 2
    /\ input[FirstClose + 2] = "("

MethodName == input[FirstClose + 1]

ListStart == FirstClose + 2

\* the second parenthesised list ends at the ) matching its (, or is still open
ListIsClosed ==
    \E e \in ListStart..Len(input) : Net(SubSeq(input, ListStart, e), "(", ")") = 0

ListEnd ==
    IF ListIsClosed
    THEN CHOOSE e \in ListStart..Len(input) :
            /\ Net(SubSeq(input, ListStart, e), "(", ")") = 0
            /\ \A j \in ListStart..(e - 1) : Net(SubSeq(input, ListStart, j), "(", ")") # 0
    ELSE Len(input)

ListTokens == SubSeq(input, ListStart, ListEnd)

IsParameterToken(t) == t \notin {"(", ")", "()", ""}

IsAnyToken(t) == TRUE

\* one addParameter event for each token of ts that passes the test
ParameterEvents(ts, Test(_)) ==
    [i \in 1..Len(SelectSeq(ts, Test)) |-> <<"addParameter", SelectSeq(ts, Test)[i]>>]

\* the events of one method declaration up to the end of its parameter list
MethodEvents(qualified, Test(_)) ==
    <<<<"openFunction", MethodName>>, <<"setQualifiedName", qualified>>>>
        \o ParameterEvents(ListTokens, Test)

\* the events so far begin with evs, and are evs as long as the list is read
BeginsWith(evs) ==
    /\ Len(events) >= Len(evs)
    /\ SubSeq(events, 1, Len(evs)) = evs
    /\ Len(input) = ListEnd => events = evs

\* the list is closed and followed by { } : the function has been closed
ThenClosed(evs) ==
    (/\ ListIsClosed
     /\ Len(input) = ListEnd + 2
     /\ input[ListEnd + 1] = "{"
     /\ input[ListEnd + 2] = "}")
    => /\ events = Append(evs, <<"closeFunction", MethodName>>)
       /\ Len(stack) = 1
       /\ funcs = <<GlobalFunction>>

\* C7 as claimed: any N other than ( { func is a method name, the qualified
\* name is ( receiver tokens joined by single spaces ) N, and the parameters
\* are the tokens of the second list.
C7_MethodWithReceiver ==
    (MethodShape /\ MethodName \notin {"(", "{", "func"})
        => BeginsWith(MethodEvents("(" \o Join(Buffered, " ") \o ")" \o MethodName,
                                   IsAnyToken))

\* the qualified name of the amended claim
QualifiedName ==
    IF JoinSpaceStrip(Buffered) = "" THEN MethodName
    ELSE "(" \o JoinSpaceStrip(Buffered) \o ")" \o MethodName

\* C7 amended: N is a method name when it is none of ( { ) func and the
\* backtick; the qualified name is ( receiver ) N, the receiver being the
\* buffered tokens joined by single spaces and stripped, and is N alone when
\* the receiver is empty; the receiver tokens are not registered as
\* parameters; the parameters are the tokens of the second list other than
\* parentheses and the empty token, in order; { } after the list closes the
\* function.
C7_MethodWithReceiverAmended ==
    (MethodShape /\ MethodName \notin {"(", "{", ")", "func", Backtick})
        => /\ BeginsWith(MethodEvents(QualifiedName, IsParameterToken))
           /\ ThenClosed(MethodEvents(QualifiedName, IsParameterToken))

\* func ( r *T ) Bar ( ) { } has been parsed
C7_Witness ==
    /\ grammar = "go"
    /\ input = <<"func", "(", "r", "*T", ")", "Bar", "(", ")", "{", "}">>
    /\ events = <<<<"openFunction", "Bar">>, <<"setQualifiedName", "(r *T)Bar">>,
                  <<"closeFunction", "Bar">>>>

-----------------------------------------------------------------------------
(* C8 *)

IsParameterEvent(e) == e[1] = "addParameter"

\* the parameter the direct route registers for the buffered tokens
AnonymousParameters ==
    IF JoinSpaceStrip(Buffered) = "" THEN <<>>
    ELSE <<<<"addParameter", JoinSpaceStrip(Buffered)>>>>

\* the function literal func ( ... ) has just been opened as anonymous, by the
\* token after ) or by the token after the tentative name
OpenedAnonymous ==
    /\ grammar = "go"
    /\ HasFirstClose
    /\ Len(input) \in {FirstClose + 1, FirstClose + 2}
    /\ Opens = 1
    /\ events[1] = <<"openFunction", "(anonymous)">>

\* C8: an anonymous function literal gets the buffered tokens registered as
\* its parameters with the same value on the direct and on the fallback route.
C8_AnonymousParametersAgree ==
    OpenedAnonymous => SelectSeq(events, IsParameterEvent) = AnonymousParameters

-----------------------------------------------------------------------------
(* C9 *)

\* the input is [ { ] type Name struct|interface { ... , after o tokens
TypeShape(o) ==
    /\ Len(input) >= o + 4
    /\ o = 1 => input[1] = "{"
    /\ input[o + 1] = "type"
    /\ input[o + 3] \in {"struct", "interface"}
    /\ input[o + 4] = "{"

TypeBody(o) == SubSeq(input, o + 4, Len(input))

BodyState(o) ==
    IF input[o + 3] = "struct" THEN "_struct_definition" ELSE "_interface_definition"

\* the body is closed by an earlier token and one more token has arrived
AfterBody(o) ==
    /\ Len(input) >= o + 6
    /\ ClosedRun(SubSeq(input, o + 4, Len(input) - 1), "{", "}")

C9_At(o) ==
    TypeShape(o) =>
        /\ OpenRun(TypeBody(o), "{", "}")
            => (Resting = BodyState(o) /\ events = <<>> /\ Len(stack) = 1 + o)
        /\ ClosedRun(TypeBody(o), "{", "}")
            => (/\ Resting = "_state_global"
                /\ Top(Config).br_count = 0
                /\ events = <<>>
                /\ Len(stack) = 1 + o)
        /\ (AfterBody(o) /\ LastToken = "func" /\ grammar = "go")
            => (Resting = "_after_func" /\ events = <<>> /\ Len(stack) = 1 + o)
        /\ (AfterBody(o) /\ LastToken = "x")
            => (Resting = "_state_global" /\ events = <<>> /\ Len(stack) = 1 + o)
        /\ (AfterBody(o) /\ LastToken = "{")
            => (Resting = "_state_global" /\ events = <<>> /\ Len(stack) = 2 + o)

\* C9: a type declaration with a struct or interface body opens no function
\* whatever its body holds, pushes no machine, and leaves the machine in the
\* global state at the depth it had before, so the next token is a top-level
\* token.
C9_TypeBodyOpensNothing == C9_At(0) /\ C9_At(1)

\* a struct body holding func is closed, and the func after it is read as a
\* top-level token
C9_Witness ==
    /\ grammar = "go"
    /\ input = <<"type", "Foo", "struct", "{", "func", "}", "func">>
    /\ Resting = "_after_func"
    /\ events = <<>>
    /\ Len(stack) = 1

-----------------------------------------------------------------------------
(* C2 *)

IsOpenOrClose(e) == e[1] \in {"openFunction", "closeFunction"}

\* an open brace of the source text that is the body of a declaration
IsBody(kind) == kind # "{"

\* C2: in a source text of well-formed declarations, when the lexer is
\* between two items, the openFunction and closeFunction events are those the
\* text calls for: one open per declaration, one close at the } matching the
\* { of its body, inner functions closed before outer ones; and the function
\* stack holds the functions whose body is open.
C2_OneOpenOneCloseInLifoOrder ==
    (grammar = "go" /\ script = <<>>)
        => /\ SelectSeq(events, IsOpenOrClose) = gen.expected
           /\ [i \in 1..(Len(funcs) - 1) |-> funcs[i + 1].name]
                = SelectSeq(gen.open, IsBody)

-----------------------------------------------------------------------------
(* C10 *)

\* the tokens that arrived while the base grammar was not in one of its own
\* states other than the global state
RECURSIVE AtGlobalLevel(_)
AtGlobalLevel(n) ==
    IF n = 0 THEN <<>>
    ELSE IF trail[n] \in BaseStates THEN AtGlobalLevel(n - 1)
    ELSE Append(AtGlobalLevel(n - 1), input[n])

\* the tokens without the annotation runs: a run is @, one token for the
\* name, then any number of pairs of . and one token for a name
RECURSIVE StripAnnotations(_, _)
StripAnnotations(ts, within) ==
    IF ts = <<>> THEN <<>>
    ELSE IF within = "name" THEN StripAnnotations(Tail(ts), "named")
    ELSE IF within = "named" /\ Head(ts) = "." THEN StripAnnotations(Tail(ts), "name")
    ELSE IF Head(ts) = "@" THEN StripAnnotations(Tail(ts), "name")
    ELSE <<Head(ts)>> \o StripAnnotations(Tail(ts), "text")

IsBaseGlobal(e) == e[1] = "base_global"

SeenByBaseGlobal == [i \in 1..Len(SelectSeq(events, IsBaseGlobal)) |->
                        SelectSeq(events, IsBaseGlobal)[i][2]]

\* C10: in the Java parse the tokens the base global handler has seen are,
\* in order, the tokens that arrived at global level with the annotation
\* runs removed.
C10_AnnotationsAreTransparent ==
    grammar = "java"
        => SeenByBaseGlobal = StripAnnotations(AtGlobalLevel(Len(input)), "text")

\* a dotted annotation has gone by and the token after it has reached the
\* base handler
C10_Witness ==
    /\ grammar = "java"
    /\ input = <<"@", "a", ".", "a", "{">>
    /\ SeenByBaseGlobal = <<"{">>

-----------------------------------------------------------------------------
(* C11 *)

IsClose(e) == e[1] = "closeFunction"

\* the closeFunction events the source text written so far calls for: one for
\* each } that matches the { of a body
CalledForCloses == SelectSeq(gen.expected, IsClose)

\* a closeFunction event is emitted only by a step that consumes a } and pops
\* a machine pushed for a function body, and that step emits exactly one
C11_CloseStep ==
    /\ Len(SelectSeq(events', IsClose)) <= Len(SelectSeq(events, IsClose)) + 1
    /\ Len(SelectSeq(events', IsClose)) > Len(SelectSeq(events, IsClose))
        => (/\ input'[Len(input')] = "}"
            /\ Len(stack') = Len(stack) - 1
            /\ stack[Len(stack) - 1].callback # "none"
            /\ stack[Len(stack) - 1].saved_state = "_function_impl")

\* whatever the tokens, closeFunction is emitted only when a } completes the
\* machine that was pushed for a function body
C11_ClosesOnlyWhenBodyMachineCompletes == [][C11_CloseStep]_vars

\* C11: after every prefix of a source text of well-formed declarations the
\* closeFunction events emitted are among those of the functions whose body
\* has been closed by its matching }: a function whose body is unfinished,
\* or not begun, has not been closed.
C11_NoCloseForUnfinishedFunction ==
    grammar = "go" =>
        /\ Len(SelectSeq(events, IsClose)) <= Len(CalledForCloses)
        /\ SelectSeq(events, IsClose)
             = SubSeq(CalledForCloses, 1, Len(SelectSeq(events, IsClose)))

-----------------------------------------------------------------------------
(* C12 *)

\* a fresh machine and a fresh Context
FreshRun(g) ==
    [grammar |-> g,
     stack |-> <<statemachine_clone(g)>>,
     funcs |-> <<GlobalFunction>>,
     events |-> <<>>]

RECURSIVE SecondRun(_, _)
\* another run of the grammar over the tokens ts, from a fresh machine and a
\* fresh Context
SecondRun(g, ts) ==
    IF ts = <<>> THEN FreshRun(g)
    ELSE advance(SecondRun(g, SubSeq(ts, 1, Len(ts) - 1)), ts[Len(ts)])

-----------------------------------------------------------------------------
(* C13 *)

\* the events of the anonymous interpretation of func ( ... )
AnonymousOpened == <<<<"openFunction", "(anonymous)">>>> \o AnonymousParameters

\* the deciding token has been processed as return-type or body input
ProcessedAsReturnOrBody(d) ==
    CASE d = "{" -> /\ Len(stack) = 2
                    /\ stack[1].saved_state = "_function_impl"
                    /\ Resting = "_state_global"
      [] d = "(" -> Len(stack) = 1 /\ Resting = "_multi_return_type"
                        /\ Top(Config).br_count = 1
      [] d = "func" -> Len(stack) = 1 /\ Resting = "_function_type"
      [] OTHER -> Len(stack) = 1 /\ Resting = "_read_return_type"

\* d is a tentative name and no function has been opened
TentativeName(d) ==
    /\ events = <<>>
    /\ funcs = <<GlobalFunction>>
    /\ Len(stack) = 1
    /\ Resting = "_check_for_parameters"
    /\ Top(Config).possible_function_name = d

\* C13 as claimed: the token after the first ) decides: ( { func open the
\* anonymous function, every other token is a tentative name.
C13_NextTokenDecides ==
    (grammar = "go" /\ HasFirstClose /\ Len(input) = FirstClose + 1)
        => IF LastToken \in {"(", "{", "func"}
           THEN events = AnonymousOpened /\ ProcessedAsReturnOrBody(LastToken)
           ELSE TentativeName(LastToken)

\* the tokens after the first ) and before the last token are backticks
OnlyBackticksBetween ==
    \A j \in (FirstClose + 1)..(Len(input) - 1) : input[j] = Backtick

\* the deciding token was a tentative name and one more token has arrived
AfterTentativeName ==
    /\ Len(input) >= FirstClose + 2
    /\ input[Len(input) - 1] \notin {"(", "{", ")", "func", Backtick}
    /\ \A j \in (FirstClose + 1)..(Len(input) - 2) : input[j] = Backtick

\* C13 amended: after the first ) that follows func ( , backticks are skipped
\* and the first other token decides: ( { ) func open the anonymous function
\* with the buffered tokens as its parameter and are then processed as
\* return-type or body input; every other token is a tentative name and opens
\* no function; the token after the tentative name opens exactly one.
C13_NextTokenDecidesAmended ==
    (grammar = "go" /\ HasFirstClose) =>
        /\ (Len(input) > FirstClose /\ OnlyBackticksBetween) =>
              IF LastToken = Backtick
              THEN events = <<>> /\ Resting = "_after_receiver_or_parameters"
              ELSE IF LastToken \in {"(", "{", ")", "func"}
              THEN events = AnonymousOpened /\ ProcessedAsReturnOrBody(LastToken)
              ELSE TentativeName(LastToken)
        /\ AfterTentativeName => (Opens = 1 /\ events[1][1] = "openFunction")

\* func ( r *T ) ) : the second ) has opened the anonymous function
C13_Witness ==
    /\ grammar = "go"
    /\ input = <<"func", "(", "r", "*T", ")", ")">>
    /\ events = <<<<"openFunction", "(anonymous)">>, <<"addParameter", "r *T">>>>
    /\ Resting = "_read_return_type"

-----------------------------------------------------------------------------
(* C14 *)

\* the draft record on top of the function stack, before and after the step
Draft == funcs[Len(funcs)]

DraftAfter == funcs'[Len(funcs')]

\* the function enclosing the draft record is not the global sentinel
EnclosedByFunction == Len(funcs) > 1 /\ funcs[Len(funcs) - 1].name # "*global*"

\* a ( after the function keyword begins a parameter list when a function
\* encloses the draft record, and a receiver clause otherwise
C14_ParenStep ==
    (grammar = "golike" /\ Resting = "_function_name" /\ Token = "(") =>
        /\ Resumed.br_count = 1
        /\ events' = events
        /\ EnclosedByFunction
              => (Resumed.state = "_function_dec" /\ DraftAfter = Draft)
        /\ ~ EnclosedByFunction
              => (/\ Resumed.state = "_member_function"
                  /\ DraftAfter = [Draft EXCEPT !.long_name = @ \o "("])

\* the tokens of a parameter list other than parentheses are passed to
\* addParameter
C14_ParameterStep ==
    (grammar = "golike" /\ Resting = "_function_dec") =>
        /\ Token \notin {"(", ")", ""}
              => (/\ events' = Append(events, <<"addParameter", Token>>)
                  /\ DraftAfter = [Draft EXCEPT !.parameters = Append(@, Token)])
        /\ Token \in {"(", ")", ""} => (events' = events /\ funcs' = funcs)

\* the tokens of a receiver clause are added to the qualified name and to
\* nothing else, and the state that collects the name follows the clause
C14_ReceiverStep ==
    (grammar = "golike" /\ Resting = "_member_function") =>
        /\ events' = events
        /\ DraftAfter = [Draft EXCEPT !.long_name = @ \o Token]
        /\ Resumed.state = (IF Resumed.br_count = 0 THEN "_function_name"
                            ELSE "_member_function")

\* the token that follows is collected as the function name
C14_NameStep ==
    (grammar = "golike" /\ Resting = "_function_name"
        /\ Token \notin {"(", "{", Backtick}) =>
        /\ events' = events
        /\ DraftAfter = [Draft EXCEPT !.name = @ \o Token, !.long_name = @ \o Token]
        /\ Resumed.state = "_expect_function_dec"

\* C14: in GoLikeStates a ( right after the function keyword is read as the
\* parameter list of an anonymous nested function exactly when the function
\* enclosing the draft record is not the global sentinel; otherwise it is a
\* receiver clause whose tokens go to the qualified name, and the token after
\* the clause is collected as the function name.
C14_ParenAfterFuncKeyword ==
    [][C14_ParenStep /\ C14_ParameterStep /\ C14_ReceiverStep /\ C14_NameStep]_vars

\* inside the body of f the list ( x ) has been read as the parameter list
\* of an anonymous function
C14_Witness ==
    /\ grammar = "golike"
    /\ input = <<"func", "f", "(", ")", "{", "func", "(", "x", ")">>
    /\ Len(funcs) = 3
    /\ Draft = [name |-> "", long_name |-> "", parameters |-> <<"x">>]
    /\ Resting = "_expect_function_impl"

-----------------------------------------------------------------------------
(* C15 *)

\* func Name ( ...
NamedShape ==
    /\ grammar = "go"
    /\ Len(input) >= 3
    /\ input[1] = "func"
    /\ input[2] \notin {"(", "{", ""}
    /\ input[3] = "("

\* the parameter list ends at the ) matching the ( after the name, or is
\* still open
NamedListIsClosed ==
    \E e \in 3..Len(input) : Net(SubSeq(input, 3, e), "(", ")") = 0

NamedListEnd ==
    IF NamedListIsClosed
    THEN CHOOSE e \in 3..Len(input) :
            /\ Net(SubSeq(input, 3, e), "(", ")") = 0
            /\ \A j \in 3..(e - 1) : Net(SubSeq(input, 3, j), "(", ")") # 0
    ELSE Len(input)

\* the events the declaration calls for up to the end of its parameter list
NamedEvents ==
    <<<<"openFunction", input[2]>>, <<"setQualifiedName", input[2]>>>>
        \o ParameterEvents(SubSeq(input, 3, NamedListEnd), IsParameterToken)

\* one function named Name is opened; the tokens of the list other than
\* parentheses (and empty tokens) are passed to addParameter in order, a func
\* among them opens nothing, and no token outside the list is passed
C15_Parameters ==
    NamedShape =>
        /\ Len(events) >= Len(NamedEvents)
        /\ SubSeq(events, 1, Len(NamedEvents)) = NamedEvents
        /\ Len(input) = NamedListEnd => events = NamedEvents
        /\ Opens = 1 => SelectSeq(events, IsParameterEvent)
                            = ParameterEvents(SubSeq(input, 3, NamedListEnd),
                                              IsParameterToken)

\* the body begins right after the parameter list and the last token is the }
\* that matches its {
BodyJustClosed ==
    /\ NamedListIsClosed
    /\ Len(input) >= NamedListEnd + 2
    /\ input[NamedListEnd + 1] = "{"
    /\ ClosedRun(SubSeq(input, NamedListEnd + 1, Len(input)), "{", "}")

\* after the closing } of the body the function has been closed and nothing
\* is left over
C15_NothingLeftOver ==
    (NamedShape /\ BodyJustClosed) =>
        /\ events[Len(events)] = <<"closeFunction", input[2]>>
        /\ Resting = "_state_global"
        /\ Len(stack) = 1
        /\ funcs = <<GlobalFunction>>
        /\ Top(Config).br_count = 0

\* C15: for func Name ( ... ) ... GoStates opens one function named Name,
\* passes to addParameter the tokens between the outer parentheses of the
\* list that are no parentheses, in order, and no other token; after the
\* closing } of the body the machine is in the global state, the machine
\* stack and the function stack are at their initial depth and the depth
\* counter is 0.
C15_NamedFunction == C15_Parameters /\ C15_NothingLeftOver

-----------------------------------------------------------------------------
(* C16 *)

\* func Name ( ... ) or func ( ... ) has been read up to the ) that ends the
\* parameter list, and a return type follows
ParameterListRead ==
    /\ grammar = "go"
    /\ \/ HasFirstClose
       \/ NamedShape /\ NamedListIsClosed

ParameterListEnd == IF input[2] = "(" THEN FirstClose ELSE NamedListEnd

\* no machine has been pushed for a body and no function has been closed
NoBodyYet == Len(stack) = 1 /\ Closes = 0

\* the machine for the body has just been pushed
BodyPushed ==
    /\ Len(stack) = 2
    /\ stack[1].saved_state = "_function_impl"
    /\ Closes = 0

\* the return type interface { ... } begins at token k: its braces are
\* consumed without a machine being pushed, and the next { starts the body
InterfaceReturnTypeAt(k) ==
    (Len(input) >= k + 1 /\ input[k] = "interface" /\ input[k + 1] = "{") =>
        /\ OpenRun(SubSeq(input, k + 1, Len(input)), "{", "}") => NoBodyYet
        /\ ClosedRun(SubSeq(input, k + 1, Len(input)), "{", "}") => NoBodyYet
        /\ (LastToken = "{"
              /\ ClosedRun(SubSeq(input, k + 1, Len(input) - 1), "{", "}"))
            => BodyPushed

\* the array or slice marker [ ... ] begins at token k: its brackets are
\* consumed, and what follows is still return type
ArrayReturnTypeAt(k) ==
    (Len(input) >= k /\ input[k] = "[") =>
        /\ OpenRun(SubSeq(input, k, Len(input)), "[", "]") => NoBodyYet
        /\ \A j \in (k + 1)..Len(input) :
              ClosedRun(SubSeq(input, k, j), "[", "]")
                  => /\ Len(input) = j => NoBodyYet
                     /\ InterfaceReturnTypeAt(j + 1)
                     /\ (Len(input) = j + 1 /\ LastToken = "{") => BodyPushed

\* C16: after the parameter list of a Go function, the braces of an interface
\* return type and the brackets of an array or slice marker are consumed
\* balanced and start no body; return-type parsing goes on after the
\* brackets; the machine for the body is pushed at the first { after the
\* complete return type.
C16_ReturnTypeBracesStartNoBody ==
    ParameterListRead =>
        /\ InterfaceReturnTypeAt(ParameterListEnd + 1)
        /\ ArrayReturnTypeAt(ParameterListEnd + 1)

\* the same for named functions only
C16_NamedOnly ==
    (Len(input) >= 2 /\ input[2] # "(") => C16_ReturnTypeBracesStartNoBody

-----------------------------------------------------------------------------
(* C17 *)

\* the state and the buffers of a machine, without the last token it saw
OwnState(m) ==
    [state |-> m.state,
     saved_state |-> m.saved_state,
     callback |-> m.callback,
     br_count |-> m.br_count,
     br_tokens |-> m.br_tokens,
     collected_tokens |-> m.collected_tokens,
     possible_function_name |-> m.possible_function_name,
     to_exit |-> m.to_exit]

\* a machine that is below the top before and after the step keeps its state
\* and buffers; a machine pushed by the step is fresh; the machine that
\* pushes stores the state it pushed from
C17_FrameStep ==
    /\ \A i \in 1..(Len(stack) - 1) :
          i < Len(stack') => OwnState(stack'[i]) = OwnState(stack[i])
    /\ Pushes =>
          /\ stack'[Len(stack')] = statemachine_clone(grammar)
          /\ stack'[Len(stack)].saved_state \in {"_state_global", "_function_impl"}

\* C17: while a nested machine is active the state and the buffers of the
\* machines below it are unchanged by every token; a nested machine starts in
\* the global state with empty buffers; a parent changes again only at the
\* token that pops the machine above it.
C17_ParentUntouchedWhileNested == [][C17_FrameStep]_vars

\* the body of a method is being parsed by a nested machine while the parent
\* holds the receiver tokens and the method name
C17_Witness ==
    /\ grammar = "go"
    /\ input = <<"func", "(", "r", "*T", ")", "Bar", "(", ")", "{", "func">>
    /\ Len(stack) = 2
    /\ stack[1].collected_tokens = <<"r", "*T">>
    /\ stack[1].possible_function_name = "Bar"
    /\ Resting = "_after_func"

-----------------------------------------------------------------------------
(* C18 *)

\* the states of the three grammars: the handler methods of each class and of
\* the classes it extends
GoLikeStateNames ==
    {"_state_global", "_type_definition", "_after_type_name", "_struct_definition",
     "_interface_definition", "_function_name", "_expect_function_dec", "_generalize",
     "_member_function", "_function_dec", "_expect_function_impl", "_function_impl"}

GoStateNames ==
    GoLikeStateNames \cup
    {"_after_func", "_collect_receiver_or_parameters", "_after_receiver_or_parameters",
     "_check_for_parameters", "_after_parameters", "_read_type_parameters",
     "_multi_return_type", "_read_return_type", "_interface_return_type",
     "_function_type", "_array_return_type"}

JavaStateNames ==
    {"_state_global", "_state_decorator", "_state_post_decorator"} \cup BaseStates

StateNames(g) ==
    CASE g = "go" -> GoStateNames
      [] g = "golike" -> GoLikeStateNames
      [] g = "java" -> JavaStateNames

\* tokens of every kind the handlers tell apart, and some they do not
AnyTokens ==
    {"func", "type", "struct", "interface", "(", ")", "{", "}", "<", ">", "[", "]",
     "", "()", Backtick, "@", ".", "x"}

\* the handler a state name resolves to on an instance of JavaStates
DispatchJava(c, tok, goes) ==
    CASE Top(c).state = "_state_global" -> Java_state_global(c, tok, goes)
      [] Top(c).state = "_state_decorator" -> Java_state_decorator(c, tok)
      [] Top(c).state = "_state_post_decorator" -> Java_state_post_decorator(c, tok, goes)
      [] Top(c).state = "_state_old_c_params" -> Java_state_old_c_params(c, tok)
      [] Top(c).state = "_state_function" -> CLike_state_function(c, tok, goes)

\* the token has been consumed: the parse is in configuration d, at most one
\* machine was pushed or popped, and the top machine is in a state of the
\* grammar
ConsumedInto(d) ==
    /\ Len(d.stack) >= 1
    /\ Len(d.stack) - Len(stack) \in {-1, 0, 1}
    /\ Top(d).state \in StateNames(grammar)
    /\ Len(d.funcs) >= 1

\* C18: every reachable state of GoStates, GoLikeStates and JavaStates is a
\* state of its grammar, and in it every token is consumed: the machine
\* stays, moves to a state of the grammar, or pushes or pops one machine.
C18_EveryStateAcceptsEveryToken ==
    /\ Len(stack) >= 1
    /\ Resting \in StateNames(grammar)
    /\ \A tok \in AnyTokens :
          IF grammar = "java"
          THEN \A goes \in FromBase : ConsumedInto(DispatchJava(Config, tok, goes))
          ELSE ConsumedInto(advance(Config, tok))

\* a } after a tentative method name has been taken by the default
\* interpretation, the anonymous function
C18_Witness ==
    /\ grammar = "go"
    /\ input = <<"func", "(", "r", "*T", ")", "Bar", "}">>
    /\ events = <<<<"openFunction", "(anonymous)">>, <<"setQualifiedName", "(anonymous)">>,
                  <<"addParameter", "r*T">>>>
    /\ Resting = "_read_return_type"

-----------------------------------------------------------------------------
(* C19 *)

\* the function stack holds the sentinel and the functions opened and not
\* yet closed
C19_SentinelStays ==
    /\ Closes <= Opens
    /\ Len(funcs) = 1 + Opens - Closes
    /\ funcs[1] = GlobalFunction

\* the } that completes a plain block pushed from the global state, and a }
\* that matches nothing, emit no event and leave the function stack alone
C19_PlainStep ==
    /\ (Pops /\ Parent.saved_state = "_state_global")
        => (/\ Parent.callback = "none"
            /\ events' = events
            /\ funcs' = funcs)
    /\ (Len(stack) = 1 /\ Resting = "_state_global" /\ Token = "}")
        => (/\ events' = events
            /\ funcs' = funcs
            /\ Len(stack') = 1)

\* C19: after every prefix of every token sequence the closeFunction events
\* of GoStates and GoLikeStates are no more than the openFunction events and
\* the global sentinel is at the bottom of the function stack; the } of a
\* plain block and an unmatched } emit no closeFunction, whatever the
\* machine completed before.
C19_ClosesNeverExceedOpens == [] C19_SentinelStays /\ [][C19_PlainStep]_vars

\* a function body was completed, then a plain block on the same machine,
\* then a } that matches nothing: one function opened, one closed
C19_Witness ==
    /\ grammar = "go"
    /\ input = <<"func", "(", ")", "{", "}", "{", "}", "}">>
    /\ events = <<<<"openFunction", "(anonymous)">>, <<"closeFunction", "(anonymous)">>>>
    /\ funcs = <<GlobalFunction>>
    /\ Len(stack) = 1

-----------------------------------------------------------------------------
(* C20 *)

\* on every machine of the stack the depth counter is 0 and the bracket
\* buffer is empty unless the machine is in a balanced-consumption state
C20_DepthZeroOutside ==
    \A i \in 1..Len(stack) :
        stack[i].state \notin BracketStates
            => stack[i].br_count = 0 /\ stack[i].br_tokens = <<>>

\* a machine that enters a balanced-consumption state starts counting from
\* 0: the counter is then 1 if the token was delivered to the state and is
\* its opening bracket, and 0 otherwise
C20_EnterStep ==
    (/\ Len(stack') = Len(stack)
     /\ stack'[Len(stack')].state \in BracketStates
     /\ stack'[Len(stack')].state # Resting)
        => (/\ stack'[Len(stack')].br_count \in {0, 1}
            /\ stack'[Len(stack')].br_count = 1
                => Token = BracketOpen(stack'[Len(stack')].state))

\* C20: in every reachable state of GoStates and GoLikeStates the depth
\* counter of a machine is 0 whenever its state is not a balanced-consumption
\* state, so every balanced consumption starts from depth 0 whatever bracket
\* run the machine consumed before.
C20_DepthIsZeroOutsideBalancedConsumption ==
    [] C20_DepthZeroOutside /\ [][C20_EnterStep]_vars

\* after the parameter list and an array type with nested brackets, the
\* parenthesis of a result list starts a run at depth 1
C20_Witness ==
    /\ grammar = "go"
    /\ input = <<"func", "f", "(", ")", "[", "[", "]", "]", "(">>
    /\ Resting = "_multi_return_type"
    /\ Top(Config).br_count = 1
    /\ Top(Config).br_tokens = <<"(">>

=============================================================================
